---- MODULE Spec2Model ----
(***************************************************************************)
(* Model of leetcode_accountability: the submission pipeline of            *)
(* UserSubmissionsService (window filter, sort, time-gap dedup, partition  *)
(* by difficulty), the UserSubmissions record, and the decision loop of    *)
(* CodingAccountabilityService.hold_accountable.                           *)
(*                                                                         *)
(* The specifications share the variables:                                 *)
(*   SpecEngine     one call of                                            *)
(*                  get_user_detailed_submissions_by_date_range, stepped   *)
(*                  through its loops;                                     *)
(*   SpecRecord     a UserSubmissions record under add_submission calls;   *)
(*   SpecRepeat     the pipeline called again on the same list of events;  *)
(*   Spec           one call of hold_accountable over a user list;         *)
(*   SpecScenario   hold_accountable for a user of quota 5 under the       *)
(*                  default gap, with a late second event of one problem;  *)
(*   SpecLimit      hold_accountable for a user whose quota is above the   *)
(*                  number of events requested from the source;            *)
(*   SpecIsolation  hold_accountable with the source's answer for each     *)
(*                  user kept until the record is built.                   *)
(*                                                                         *)
(* Python values: a datetime is an integer number of seconds (naive local  *)
(* time), a timedelta an integer number of seconds, an Optional[int] is    *)
(* <<>> (None) or <<v>>, a JSON null difficulty is the string "null", a    *)
(* dict is a function whose DOMAIN is its key set, a float amount is an    *)
(* exact fraction [num, den].                                              *)
(***************************************************************************)
EXTENDS Integers, Sequences, FiniteSets, TLC

VARIABLES
    pc,                             \* position of the running call
    tz,                             \* UTC offset of the host in seconds (datetime.fromtimestamp)
    start_date, end_date,           \* the window, naive local datetimes
    min_hours_between_submissions,  \* the minimum gap in hours
    submissions,                    \* get_submissions_between_dates: list returned by the source
    fpos,                           \* get_submissions_between_dates: position of its for loop
    filtered_submissions,           \* the filtered list, then the caller's sorted list
    pos,                            \* get_unique_questions_between_dates: position of its for loop
    question_submissions,           \* dict titleSlug -> list of accepted datetimes
    unique_submissions,             \* accepted events
    user_submissions,               \* the UserSubmissions record being built
    added,                          \* SpecRecord: the submissions handed to add_submission so far
    users, cost_per_question,       \* CodingAccountabilityService fields
    idx,                            \* hold_accountable: index of the user being processed
    all_user_submissions,           \* hold_accountable: the list it returns
    printed,                        \* hold_accountable: the line printed for each user
    expenses                        \* the calls received by SplitwiseClient.create_expense

vars == <<pc, tz, start_date, end_date, min_hours_between_submissions, submissions, fpos,
          filtered_submissions, pos, question_submissions, unique_submissions,
          user_submissions, added, users, cost_per_question, idx, all_user_submissions,
          printed, expenses>>

engineVars == <<submissions, fpos, filtered_submissions, pos, question_submissions,
                unique_submissions>>
argVars == <<tz, start_date, end_date, min_hours_between_submissions>>
runVars == <<users, cost_per_question, idx, all_user_submissions, printed, expenses>>

(***************************************************************************)
(* Bounds of the model                                                     *)
(***************************************************************************)
MaxTick == 2        \* event and window instants are 0..MaxTick half hours
MaxEvents == 3      \* length of the list the source returns to the stepped pipeline
MaxGapHours == 1    \* the minimum gap is 0..MaxGapHours hours
MaxAdds == 3        \* add_submission calls in SpecRecord
MaxUsers == 2       \* length of the user list of a run
MaxRunEvents == 2   \* length of the list the source returns to a user of a run
MaxQuota == 2       \* min_questions is 0 or MaxQuota

(***************************************************************************)
(* Time                                                                    *)
(***************************************************************************)
SecondsPerHour == 3600

HalfHour == SecondsPerHour \div 2

Ticks == 0 .. MaxTick

Timestamps == {k * HalfHour : k \in Ticks}

\* the UTC offsets of the hosts modelled
TZOffsets == {SecondsPerHour}

\* a variant of timedelta_hours that takes its argument for minutes
M_timedelta_hours_AsMinutes(h) == h * 60

\* timedelta(hours=h)
timedelta_hours(h) == h * SecondsPerHour

\* datetime.fromtimestamp(int(ts)) on a host whose UTC offset is offset
fromtimestamp(ts, offset) == ts + offset

(***************************************************************************)
(* The submission source (LeetCode)                                        *)
(***************************************************************************)
EASY == "Easy"

MEDIUM == "Medium"

HARD == "Hard"

NullDifficulty == "null"

\* the problems the source knows: titleSlug -> [title, difficulty]
QuestionBank ==
    [slug \in {"two-sum", "lru-cache", "merge-k-sorted-lists", "mystery"} |->
        CASE slug = "two-sum" -> [title |-> "Two Sum", difficulty |-> EASY]
          [] slug = "lru-cache" -> [title |-> "LRU Cache", difficulty |-> MEDIUM]
          [] slug = "merge-k-sorted-lists" ->
                [title |-> "Merge k Sorted Lists", difficulty |-> HARD]
          [] OTHER -> [title |-> "Mystery", difficulty |-> NullDifficulty]]

\* the problems of the enumerated answers: one easy, one medium, one of null difficulty
Slugs == DOMAIN QuestionBank \ {"merge-k-sorted-lists"}

\* one element of recentAcSubmissionList
RecentSubmission ==
    {[titleSlug |-> s, title |-> QuestionBank[s].title, timestamp |-> t] :
        s \in Slugs, t \in Timestamps}

SeqsUpTo(S, n) == UNION {[1 .. m -> S] : m \in 0 .. n}

\* what get_recent_accepted_submissions may return, in any order
get_recent_accepted_submissions == SeqsUpTo(RecentSubmission, MaxEvents)

\* get_question_detail(titleSlug)
get_question_detail(title_slug) == [difficulty |-> QuestionBank[title_slug].difficulty]

(***************************************************************************)
(* UserSubmissionsService.get_submissions_between_dates                    *)
(***************************************************************************)
\* a variant of InDateRange whose upper end is exclusive
M_InDateRange_ExclusiveEnd(submission, start, end, offset) ==
    LET submission_date == fromtimestamp(submission.timestamp, offset)
    IN  start <= submission_date /\ submission_date < end

\* start_date <= submission_date <= end_date
InDateRange(submission, start, end, offset) ==
    LET submission_date == fromtimestamp(submission.timestamp, offset)
    IN  start <= submission_date /\ submission_date <= end

\* a variant of WithDetails that also stores the local time back into the event
M_WithDetails_StoresLocalTime(submission) ==
    [titleSlug |-> submission.titleSlug,
     title |-> submission.title,
     timestamp |-> fromtimestamp(submission.timestamp, tz),
     difficulty |-> get_question_detail(submission.titleSlug).difficulty]

\* submission["difficulty"] = question_details["difficulty"]
WithDetails(submission) ==
    [titleSlug |-> submission.titleSlug,
     title |-> submission.title,
     timestamp |-> submission.timestamp,
     difficulty |-> get_question_detail(submission.titleSlug).difficulty]

\* one iteration of the filter loop: the new filtered_submissions
FilterBody(filtered, submission, start, end, offset) ==
    IF InDateRange(submission, start, end, offset)
    THEN Append(filtered, WithDetails(submission))
    ELSE filtered

RECURSIVE FilterFrom(_, _, _, _, _, _)
FilterFrom(filtered, raw, n, start, end, offset) ==
    IF n > Len(raw)
    THEN filtered
    ELSE FilterFrom(FilterBody(filtered, raw[n], start, end, offset), raw, n + 1,
                    start, end, offset)

\* the whole call, include_details = True
get_submissions_between_dates(raw, start, end, offset) ==
    FilterFrom(<<>>, raw, 1, start, end, offset)

\* the list of the source after the call: the in-window events are the dicts the
\* call wrote the difficulty into
DetailedInPlace(raw, start, end, offset) ==
    [j \in 1 .. Len(raw) |->
        IF InDateRange(raw[j], start, end, offset) THEN WithDetails(raw[j]) ELSE raw[j]]

(***************************************************************************)
(* UserSubmissionsService.get_unique_questions_between_dates               *)
(***************************************************************************)
\* list.sort(key=int(timestamp)) is stable: an element goes behind every element
\* whose key is not larger
RECURSIVE InsertByTimestamp(_, _)
InsertByTimestamp(sorted, e) ==
    IF sorted = <<>>
    THEN <<e>>
    ELSE IF sorted[Len(sorted)].timestamp <= e.timestamp
         THEN Append(sorted, e)
         ELSE Append(InsertByTimestamp(SubSeq(sorted, 1, Len(sorted) - 1), e),
                     sorted[Len(sorted)])

RECURSIVE SortFrom(_, _, _)
SortFrom(sorted, list, n) ==
    IF n > Len(list)
    THEN sorted
    ELSE SortFrom(InsertByTimestamp(sorted, list[n]), list, n + 1)

\* a variant of SortByTimestamp that leaves the list in the order of the source
M_SortByTimestamp_Unsorted(list) == list

\* submissions.sort(key=lambda x: int(x["timestamp"]))
SortByTimestamp(list) == SortFrom(<<>>, list, 1)

\* a variant of EnoughTimePassed that never rejects
M_EnoughTimePassed_Always(submission_time, last_submission_time, min_hours) == TRUE

\* a variant of EnoughTimePassed with a strict comparison
M_EnoughTimePassed_Strict(submission_time, last_submission_time, min_hours) ==
    submission_time - last_submission_time > timedelta_hours(min_hours)

\* time_diff >= timedelta(hours=min_hours_between_submissions)
EnoughTimePassed(submission_time, last_submission_time, min_hours) ==
    submission_time - last_submission_time >= timedelta_hours(min_hours)

\* a variant of DedupBody that records the time of a rejected event too
M_DedupBody_AdvanceOnReject(st, submission, min_hours, offset) ==
    LET title_slug == submission.titleSlug
        submission_time == fromtimestamp(submission.timestamp, offset)
        qs == st.question_submissions
    IN  IF title_slug \notin DOMAIN qs
        THEN [question_submissions |-> qs @@ (title_slug :> <<submission_time>>),
              unique_submissions |-> Append(st.unique_submissions, submission)]
        ELSE LET last_submission_time == qs[title_slug][Len(qs[title_slug])]
             IN  [question_submissions |->
                     [qs EXCEPT ![title_slug] = Append(@, submission_time)],
                  unique_submissions |->
                     IF EnoughTimePassed(submission_time, last_submission_time, min_hours)
                     THEN Append(st.unique_submissions, submission)
                     ELSE st.unique_submissions]

\* one iteration of the dedup loop on the pair of locals
\* [question_submissions, unique_submissions]
DedupBody(st, submission, min_hours, offset) ==
    LET title_slug == submission.titleSlug
        submission_time == fromtimestamp(submission.timestamp, offset)
        qs == st.question_submissions
    IN  IF title_slug \notin DOMAIN qs
        THEN [question_submissions |-> qs @@ (title_slug :> <<submission_time>>),
              unique_submissions |-> Append(st.unique_submissions, submission)]
        ELSE LET last_submission_time == qs[title_slug][Len(qs[title_slug])]
             IN  IF EnoughTimePassed(submission_time, last_submission_time, min_hours)
                 THEN [question_submissions |->
                          [qs EXCEPT ![title_slug] = Append(@, submission_time)],
                       unique_submissions |-> Append(st.unique_submissions, submission)]
                 ELSE st

EmptyDedup == [question_submissions |-> <<>>, unique_submissions |-> <<>>]

RECURSIVE DedupFrom(_, _, _, _, _)
DedupFrom(st, sorted, n, min_hours, offset) ==
    IF n > Len(sorted)
    THEN st
    ELSE DedupFrom(DedupBody(st, sorted[n], min_hours, offset), sorted, n + 1,
                   min_hours, offset)

\* a variant of get_unique_questions_between_dates that runs the dedup pass on
\* every event of the source and applies the window afterwards
M_get_unique_questions_between_dates_FilterLast(raw, start, end, min_hours, offset) ==
    SelectSeq(DedupFrom(EmptyDedup,
                        SortByTimestamp([j \in 1 .. Len(raw) |-> WithDetails(raw[j])]),
                        1, min_hours, offset).unique_submissions,
              LAMBDA submission : InDateRange(submission, start, end, offset))

\* the whole call, include_details = True
get_unique_questions_between_dates(raw, start, end, min_hours, offset) ==
    DedupFrom(EmptyDedup,
              SortByTimestamp(get_submissions_between_dates(raw, start, end, offset)),
              1, min_hours, offset).unique_submissions

(***************************************************************************)
(* entities.Submission, entities.UserSubmissions                           *)
(***************************************************************************)
\* UserSubmissions(username=username)
UserSubmissions(username) ==
    [username |-> username,
     easy_submissions |-> <<>>,
     medium_submissions |-> <<>>,
     hard_submissions |-> <<>>]

easy_count(rec) == Len(rec.easy_submissions)

medium_count(rec) == Len(rec.medium_submissions)

hard_count(rec) == Len(rec.hard_submissions)

\* a variant of total_questions that is a counter of the add_submission calls
M_total_questions_CountsCalls(rec) == Len(added)

total_questions(rec) ==
    Len(rec.easy_submissions) + Len(rec.medium_submissions) + Len(rec.hard_submissions)

\* a variant of add_submission that files an unknown difficulty under hard
M_add_submission_UnknownIsHard(rec, submission) ==
    IF submission.difficulty = EASY
    THEN [rec EXCEPT !.easy_submissions = Append(@, submission)]
    ELSE IF submission.difficulty = MEDIUM
         THEN [rec EXCEPT !.medium_submissions = Append(@, submission)]
         ELSE [rec EXCEPT !.hard_submissions = Append(@, submission)]

\* a variant of add_submission that appends the submission twice
M_add_submission_Twice(rec, submission) ==
    IF submission.difficulty = EASY
    THEN [rec EXCEPT !.easy_submissions = @ \o <<submission, submission>>]
    ELSE IF submission.difficulty = MEDIUM
         THEN [rec EXCEPT !.medium_submissions = @ \o <<submission, submission>>]
         ELSE IF submission.difficulty = HARD
              THEN [rec EXCEPT !.hard_submissions = @ \o <<submission, submission>>]
              ELSE rec

add_submission(rec, submission) ==
    IF submission.difficulty = EASY
    THEN [rec EXCEPT !.easy_submissions = Append(@, submission)]
    ELSE IF submission.difficulty = MEDIUM
         THEN [rec EXCEPT !.medium_submissions = Append(@, submission)]
         ELSE IF submission.difficulty = HARD
              THEN [rec EXCEPT !.hard_submissions = Append(@, submission)]
              ELSE rec

\* Submission(name=..., submission_time=..., difficulty=..., url=...)
Submission(question, offset) ==
    [name |-> question.title,
     submission_time |-> fromtimestamp(question.timestamp, offset),
     difficulty |-> question.difficulty,
     url |-> <<"https://leetcode.com/problems/", question.titleSlug>>]

RECURSIVE AddFrom(_, _, _, _)
AddFrom(rec, questions, n, offset) ==
    IF n > Len(questions)
    THEN rec
    ELSE AddFrom(add_submission(rec, Submission(questions[n], offset)), questions, n + 1,
                 offset)

\* the whole call
get_user_detailed_submissions_by_date_range(username, raw, start, end, min_hours, offset) ==
    AddFrom(UserSubmissions(username),
            get_unique_questions_between_dates(raw, start, end, min_hours, offset),
            1, offset)

(***************************************************************************)
(* SpecEngine: one call of get_user_detailed_submissions_by_date_range,    *)
(* stepped through its loops                                               *)
(***************************************************************************)
EngineUser == "alice"

\* the locals of a call that has not assigned them yet
NoEngineLocals ==
    /\ submissions = <<>>
    /\ fpos = 0
    /\ filtered_submissions = <<>>
    /\ pos = 0
    /\ question_submissions = <<>>
    /\ unique_submissions = <<>>

NoRun ==
    /\ users = <<>>
    /\ cost_per_question = 0
    /\ idx = 0
    /\ all_user_submissions = <<>>
    /\ printed = <<>>
    /\ expenses = <<>>

InitEngine ==
    /\ pc = "fetch"
    /\ tz \in TZOffsets
    /\ start_date \in {fromtimestamp(t, tz) : t \in {0, HalfHour}}
    /\ end_date \in {fromtimestamp(t * HalfHour, tz) : t \in {MaxTick - 1, MaxTick}}
    /\ min_hours_between_submissions \in 0 .. MaxGapHours
    /\ NoEngineLocals
    /\ user_submissions = UserSubmissions(EngineUser)
    /\ added = <<>>
    /\ NoRun

\* leetcode_client.get_recent_accepted_submissions(username, limit=20) returns
Fetch ==
    /\ pc = "fetch"
    /\ \E raw \in get_recent_accepted_submissions : submissions' = raw
    /\ fpos' = 1
    /\ filtered_submissions' = <<>>
    /\ pc' = "filter"
    /\ UNCHANGED <<argVars, pos, question_submissions, unique_submissions,
                   user_submissions, added, runVars>>

\* client.execute raises in get_recent_accepted_submissions
FetchRaises ==
    /\ pc = "fetch"
    /\ pc' = "raised"
    /\ UNCHANGED <<argVars, engineVars, user_submissions, added, runVars>>

\* one iteration of the filter loop; the difficulty is written into the event itself
FilterStep ==
    /\ pc = "filter"
    /\ fpos <= Len(submissions)
    /\ filtered_submissions' =
          FilterBody(filtered_submissions, submissions[fpos], start_date, end_date, tz)
    /\ submissions' =
          IF InDateRange(submissions[fpos], start_date, end_date, tz)
          THEN [submissions EXCEPT ![fpos] = WithDetails(@)]
          ELSE submissions
    /\ fpos' = fpos + 1
    /\ UNCHANGED <<pc, argVars, pos, question_submissions, unique_submissions,
                   user_submissions, added, runVars>>

\* client.execute raises in get_question_detail, or the question is null; nothing
\* catches the exception, which leaves the call and unwinds its locals
DetailRaises ==
    /\ pc = "filter"
    /\ fpos <= Len(submissions)
    /\ InDateRange(submissions[fpos], start_date, end_date, tz)
    /\ pc' = "raised in get_question_detail"
    /\ submissions' = <<>>
    /\ fpos' = 0
    /\ filtered_submissions' = <<>>
    /\ UNCHANGED <<argVars, pos, question_submissions, unique_submissions,
                   user_submissions, added, runVars>>

\* return filtered_submissions
FilterReturn ==
    /\ pc = "filter"
    /\ fpos > Len(submissions)
    /\ submissions' = <<>>
    /\ fpos' = 0
    /\ pc' = "sort"
    /\ UNCHANGED <<argVars, filtered_submissions, pos, question_submissions,
                   unique_submissions, user_submissions, added, runVars>>

\* submissions.sort(key=...), then the dedup locals are created
Sort ==
    /\ pc = "sort"
    /\ filtered_submissions' = SortByTimestamp(filtered_submissions)
    /\ question_submissions' = <<>>
    /\ unique_submissions' = <<>>
    /\ pos' = 1
    /\ pc' = "dedup"
    /\ UNCHANGED <<argVars, submissions, fpos, user_submissions, added, runVars>>

\* one iteration of the dedup loop
DedupStep ==
    /\ pc = "dedup"
    /\ pos <= Len(filtered_submissions)
    /\ LET st == DedupBody([question_submissions |-> question_submissions,
                            unique_submissions |-> unique_submissions],
                           filtered_submissions[pos], min_hours_between_submissions, tz)
       IN  /\ question_submissions' = st.question_submissions
           /\ unique_submissions' = st.unique_submissions
    /\ pos' = pos + 1
    /\ UNCHANGED <<pc, argVars, submissions, fpos, filtered_submissions,
                   user_submissions, added, runVars>>

\* return unique_submissions: the caller keeps it as questions
DedupReturn ==
    /\ pc = "dedup"
    /\ pos > Len(filtered_submissions)
    /\ filtered_submissions' = <<>>
    /\ question_submissions' = <<>>
    /\ pos' = 0
    /\ pc' = "aggregate"
    /\ UNCHANGED <<argVars, submissions, fpos, unique_submissions, user_submissions,
                   added, runVars>>

\* the loop that builds the UserSubmissions record, up to its return
Aggregate ==
    /\ pc = "aggregate"
    /\ user_submissions' = AddFrom(UserSubmissions(EngineUser), unique_submissions, 1, tz)
    /\ pc' = "done"
    /\ UNCHANGED <<argVars, engineVars, added, runVars>>

NextEngine ==
    \/ Fetch
    \/ FetchRaises
    \/ FilterStep
    \/ DetailRaises
    \/ FilterReturn
    \/ Sort
    \/ DedupStep
    \/ DedupReturn
    \/ Aggregate

SpecEngine == InitEngine /\ [][NextEngine]_vars

(***************************************************************************)
(* SpecRecord: a UserSubmissions record under add_submission calls         *)
(***************************************************************************)
\* the Submission values handed to add_submission: every tier, a null difficulty
\* and a string that is no tier
SubmissionValues ==
    {[name |-> "Two Sum", submission_time |-> t, difficulty |-> d,
      url |-> <<"https://leetcode.com/problems/", "two-sum">>] :
        t \in {0, HalfHour}, d \in {EASY, MEDIUM, HARD, NullDifficulty, "easy"}}

InitRecord ==
    /\ pc = "record"
    /\ tz = 0
    /\ start_date = 0
    /\ end_date = 0
    /\ min_hours_between_submissions = 0
    /\ NoEngineLocals
    /\ user_submissions = UserSubmissions(EngineUser)
    /\ added = <<>>
    /\ NoRun

AddSubmission ==
    /\ pc = "record"
    /\ Len(added) < MaxAdds
    /\ \E submission \in SubmissionValues :
          /\ user_submissions' = add_submission(user_submissions, submission)
          /\ added' = Append(added, submission)
    /\ UNCHANGED <<pc, argVars, engineVars, runVars>>

NextRecord == AddSubmission

SpecRecord == InitRecord /\ [][NextRecord]_vars

(***************************************************************************)
(* SpecRepeat: get_user_detailed_submissions_by_date_range called again    *)
(* for one username with the same window and gap, against a source that    *)
(* answers with the same list of event dicts; the records returned are     *)
(* kept in all_user_submissions                                            *)
(***************************************************************************)
MaxCalls == 2       \* calls of the pipeline on the same list

InitRepeat ==
    /\ pc = "call"
    /\ tz \in TZOffsets
    /\ start_date \in {fromtimestamp(t, tz) : t \in {0, HalfHour}}
    /\ end_date \in {fromtimestamp(t * HalfHour, tz) : t \in {MaxTick - 1, MaxTick}}
    /\ min_hours_between_submissions \in 0 .. MaxGapHours
    /\ submissions \in SeqsUpTo(RecentSubmission, MaxRunEvents)
    /\ fpos = 0
    /\ filtered_submissions = <<>>
    /\ pos = 0
    /\ question_submissions = <<>>
    /\ unique_submissions = <<>>
    /\ user_submissions = UserSubmissions(EngineUser)
    /\ added = <<>>
    /\ NoRun

\* one whole call: the record is returned, the in-window events of the source's list
\* keep the difficulty the call wrote into them
CallPipeline ==
    /\ pc = "call"
    /\ Len(all_user_submissions) < MaxCalls
    /\ user_submissions' =
          get_user_detailed_submissions_by_date_range(
             EngineUser, submissions, start_date, end_date,
             min_hours_between_submissions, tz)
    /\ all_user_submissions' = Append(all_user_submissions, user_submissions')
    /\ submissions' = DetailedInPlace(submissions, start_date, end_date, tz)
    /\ UNCHANGED <<pc, argVars, fpos, filtered_submissions, pos, question_submissions,
                   unique_submissions, added, users, cost_per_question, idx, printed,
                   expenses>>

NextRepeat == CallPipeline

SpecRepeat == InitRepeat /\ [][NextRepeat]_vars

(***************************************************************************)
(* entities.User, the user directory                                       *)
(***************************************************************************)
None == <<>>

Some(v) == <<v>>

\* Python truth value of an Optional[int]
Truthy(opt) == opt /= None /\ opt[1] /= 0

SplitwiseIdOf == [name \in {"ann", "bob"} |-> IF name = "ann" THEN 101 ELSE 102]

\* the User records load_users can build: splitwise_id is None when the key is missing
UserPool ==
    UNION {{[name |-> n,
             leetcode_id |-> <<n, "_lc">>,
             splitwise_id |-> sid,
             splitwise_group_id |-> Some(7),
             email_address |-> None,
             min_questions |-> q,
             is_active |-> TRUE] :
                sid \in {None, Some(SplitwiseIdOf[n])}, q \in {0, MaxQuota}} :
           n \in DOMAIN SplitwiseIdOf}

(***************************************************************************)
(* splitwise_client.UserShare, SplitwiseExpenseData                        *)
(***************************************************************************)
\* a float amount a / b, kept exact
Frac(a, b) == [num |-> a, den |-> b]

Amount(a) == Frac(a, 1)

FracEq(x, y) == x.num * y.den = y.num * x.den

UserShare(user_id, paid_share, owed_share) ==
    [user_id |-> user_id, paid_share |-> paid_share, owed_share |-> owed_share]

(***************************************************************************)
(* CodingAccountabilityService.hold_accountable                            *)
(***************************************************************************)
CostPerQuestionDefault == 10

\* a variant of num_missed_questions clamped at 0
M_num_missed_questions_Clamped(user, rec) ==
    IF user.min_questions > total_questions(rec)
    THEN user.min_questions - total_questions(rec)
    ELSE 0

\* num_missed_questions = user.min_questions - user_submissions.total_questions
num_missed_questions(user, rec) == user.min_questions - total_questions(rec)

\* a variant of GoalIsMet that takes an exactly met quota for a miss
M_GoalIsMet_Strict(user, rec) == num_missed_questions(user, rec) < 0

\* a variant of GoalIsMet for a loop that looks at the billing identity first
M_GoalIsMet_AfterIdentityCheck(user, rec) ==
    num_missed_questions(user, rec) <= 0 /\ Truthy(user.splitwise_id)

\* if num_missed_questions <= 0: ... continue
GoalIsMet(user, rec) == num_missed_questions(user, rec) <= 0

\* a variant of LacksSplitwiseId that never skips
M_LacksSplitwiseId_Never(user) == FALSE

\* if not user.splitwise_id: ... continue
LacksSplitwiseId(user) == ~Truthy(user.splitwise_id)

\* a variant of Cost that charges the unit cost whatever the shortfall
M_Cost_Flat(user, rec, unit_cost) == unit_cost

\* cost = num_missed_questions * self.cost_per_question
Cost(user, rec, unit_cost) == num_missed_questions(user, rec) * unit_cost

\* [other_user for other_user in self.users if other_user != user]
OtherUsers(all_users, user) == SelectSeq(all_users, LAMBDA other_user : other_user /= user)

\* the share line appended for one other user
PeerShare(other_user, cost, other_users) ==
    UserShare(other_user.splitwise_id, Frac(cost, Len(other_users)), Amount(0))

\* the share line of the user who missed the goal
OwnShare(user, cost) == UserShare(user.splitwise_id, Amount(0), Amount(cost))

\* the line printed in each branch of the loop
MetGoalLine(user) == <<user.name, "has met their goal of", user.min_questions>>

NoSplitwiseIdLine(user) == <<user.name, "does not have a Splitwise ID">>

CreatedExpenseLine(user, cost) == <<"Created expense for", user.name, cost>>

\* expense_data as handed to create_expense
ExpenseData(user, rec, all_users, unit_cost, start, end) ==
    LET cost == Cost(user, rec, unit_cost)
        other_users == OtherUsers(all_users, user)
    IN  [cost |-> cost,
         group_id |-> user.splitwise_group_id,
         description |-> <<user.name, total_questions(rec), start, end>>,
         details |-> <<user.name, total_questions(rec), start, end,
                       easy_count(rec), medium_count(rec), hard_count(rec),
                       num_missed_questions(user, rec), user.min_questions, cost>>,
         users |-> <<OwnShare(user, cost)>> \o
                   [j \in 1 .. Len(other_users) |->
                       PeerShare(other_users[j], cost, other_users)]]

(***************************************************************************)
(* Spec: one call of hold_accountable                                      *)
(***************************************************************************)
\* what get_recent_accepted_submissions may return to a user of a run: events
\* before the window (instant 0) and in it (half an hour later)
RunFeeds == SeqsUpTo({e \in RecentSubmission : e.timestamp <= HalfHour}, MaxRunEvents)

Init ==
    /\ pc = "loop"
    /\ tz \in TZOffsets
    /\ start_date = fromtimestamp(HalfHour, tz)
    /\ end_date = fromtimestamp(MaxTick * HalfHour, tz)
    /\ min_hours_between_submissions = MaxGapHours
    /\ NoEngineLocals
    /\ user_submissions = UserSubmissions("")
    /\ added = <<>>
    /\ users \in SeqsUpTo(UserPool, MaxUsers) \ {<<>>}
    /\ cost_per_question = CostPerQuestionDefault
    /\ idx = 1
    /\ all_user_submissions = <<>>
    /\ printed = <<>>
    /\ expenses = <<>>

\* a variant of FetchUser that puts the record at the front of the list
M_FetchUser_InsertFirst ==
    /\ pc = "loop"
    /\ idx <= Len(users)
    /\ \E raw \in RunFeeds :
          user_submissions' =
             get_user_detailed_submissions_by_date_range(
                users[idx].leetcode_id, raw, start_date, end_date,
                min_hours_between_submissions, tz)
    /\ all_user_submissions' = <<user_submissions'>> \o all_user_submissions
    /\ pc' = "decide"
    /\ UNCHANGED <<argVars, engineVars, added, users, cost_per_question, idx, printed,
                   expenses>>

\* user_submissions = get_user_detailed_submissions_by_date_range(...);
\* all_user_submissions.append(user_submissions)
FetchUser ==
    /\ pc = "loop"
    /\ idx <= Len(users)
    /\ \E raw \in RunFeeds :
          user_submissions' =
             get_user_detailed_submissions_by_date_range(
                users[idx].leetcode_id, raw, start_date, end_date,
                min_hours_between_submissions, tz)
    /\ all_user_submissions' = Append(all_user_submissions, user_submissions')
    /\ pc' = "decide"
    /\ UNCHANGED <<argVars, engineVars, added, users, cost_per_question, idx, printed,
                   expenses>>

\* a variant of SourceRaises that withdraws the expenses submitted so far
M_SourceRaises_RollsBack ==
    /\ pc = "loop"
    /\ idx <= Len(users)
    /\ pc' = "raised"
    /\ expenses' = <<>>
    /\ UNCHANGED <<argVars, engineVars, user_submissions, added, users,
                   cost_per_question, idx, all_user_submissions, printed>>

\* the submission source raises while the user's submissions are fetched or
\* detailed: the exception leaves hold_accountable, which returns nothing
SourceRaises ==
    /\ pc = "loop"
    /\ idx <= Len(users)
    /\ pc' = "raised"
    /\ UNCHANGED <<argVars, engineVars, user_submissions, added, runVars>>

\* "has met their goal ... Skipping user."
GoalMet ==
    /\ pc = "decide"
    /\ GoalIsMet(users[idx], user_submissions)
    /\ printed' = Append(printed, MetGoalLine(users[idx]))
    /\ idx' = idx + 1
    /\ pc' = "loop"
    /\ UNCHANGED <<argVars, engineVars, user_submissions, added, users,
                   cost_per_question, all_user_submissions, expenses>>

\* "does not have a Splitwise ID. Skipping generating expense for user."
NoSplitwiseId ==
    /\ pc = "decide"
    /\ ~GoalIsMet(users[idx], user_submissions)
    /\ LacksSplitwiseId(users[idx])
    /\ printed' = Append(printed, NoSplitwiseIdLine(users[idx]))
    /\ idx' = idx + 1
    /\ pc' = "loop"
    /\ UNCHANGED <<argVars, engineVars, user_submissions, added, users,
                   cost_per_question, all_user_submissions, expenses>>

\* a variant of CreateExpense that submits the expense a second time
M_CreateExpense_Twice ==
    /\ pc = "decide"
    /\ ~GoalIsMet(users[idx], user_submissions)
    /\ ~LacksSplitwiseId(users[idx])
    /\ LET call == [user_index |-> idx,
                    expense_data |->
                       ExpenseData(users[idx], user_submissions, users, cost_per_question,
                                   start_date, end_date)]
       IN  expenses' = expenses \o <<call, call>>
    /\ printed' =
          Append(printed,
                 CreatedExpenseLine(users[idx],
                                    Cost(users[idx], user_submissions, cost_per_question)))
    /\ idx' = idx + 1
    /\ pc' = "loop"
    /\ UNCHANGED <<argVars, engineVars, user_submissions, added, users,
                   cost_per_question, all_user_submissions>>

\* self.splitwise_client.create_expense(expense_data) returns; each call is logged
\* with the index of the user it was made for
CreateExpense ==
    /\ pc = "decide"
    /\ ~GoalIsMet(users[idx], user_submissions)
    /\ ~LacksSplitwiseId(users[idx])
    /\ expenses' =
          Append(expenses,
                 [user_index |-> idx,
                  expense_data |->
                     ExpenseData(users[idx], user_submissions, users, cost_per_question,
                                 start_date, end_date)])
    /\ printed' =
          Append(printed,
                 CreatedExpenseLine(users[idx],
                                    Cost(users[idx], user_submissions, cost_per_question)))
    /\ idx' = idx + 1
    /\ pc' = "loop"
    /\ UNCHANGED <<argVars, engineVars, user_submissions, added, users,
                   cost_per_question, all_user_submissions>>

\* create_expense raises: the exception leaves hold_accountable, which returns
\* nothing
CreateExpenseRaises ==
    /\ pc = "decide"
    /\ ~GoalIsMet(users[idx], user_submissions)
    /\ ~LacksSplitwiseId(users[idx])
    /\ pc' = "raised"
    /\ UNCHANGED <<argVars, engineVars, user_submissions, added, runVars>>

\* return all_user_submissions
Return ==
    /\ pc = "loop"
    /\ idx > Len(users)
    /\ pc' = "returned"
    /\ UNCHANGED <<argVars, engineVars, user_submissions, added, runVars>>

Next ==
    \/ FetchUser
    \/ SourceRaises
    \/ GoalMet
    \/ NoSplitwiseId
    \/ CreateExpense
    \/ CreateExpenseRaises
    \/ Return

Spec == Init /\ [][Next]_vars

(***************************************************************************)
(* SpecScenario: one call of hold_accountable with the default gap for a   *)
(* user of quota 5 and a peer of quota 0; the source answers each query    *)
(* with events of three distinct problems and a second event of the first  *)
(* problem some hours after the first one                                  *)
(***************************************************************************)
DefaultMinHours == 24

MaxDelayHours == 36     \* the second event of the first problem is 0..MaxDelayHours hours late

\* an element of recentAcSubmissionList for a problem, hours after instant 0
EventAt(slug, hours) ==
    [titleSlug |-> slug, title |-> QuestionBank[slug].title,
     timestamp |-> hours * SecondsPerHour]

ScenarioFeed(delay) ==
    <<EventAt("two-sum", 0), EventAt("lru-cache", 1), EventAt("merge-k-sorted-lists", 2),
      EventAt("two-sum", delay)>>

\* the list in any order the source may return it
Reorderings(list) ==
    {[j \in 1 .. Len(list) |-> list[p[j]]] : p \in Permutations(1 .. Len(list))}

ScenarioUsers ==
    <<[name |-> "ann", leetcode_id |-> <<"ann", "_lc">>,
       splitwise_id |-> Some(SplitwiseIdOf["ann"]), splitwise_group_id |-> Some(7),
       email_address |-> None, min_questions |-> 5, is_active |-> TRUE],
      [name |-> "bob", leetcode_id |-> <<"bob", "_lc">>,
       splitwise_id |-> Some(SplitwiseIdOf["bob"]), splitwise_group_id |-> Some(7),
       email_address |-> None, min_questions |-> 0, is_active |-> TRUE]>>

InitScenario ==
    /\ pc = "loop"
    /\ tz \in TZOffsets
    /\ start_date = fromtimestamp(0, tz)
    /\ end_date = fromtimestamp(MaxDelayHours * SecondsPerHour, tz)
    /\ min_hours_between_submissions = DefaultMinHours
    /\ \E delay \in 0 .. MaxDelayHours : submissions \in Reorderings(ScenarioFeed(delay))
    /\ fpos = 0
    /\ filtered_submissions = <<>>
    /\ pos = 0
    /\ question_submissions = <<>>
    /\ unique_submissions = <<>>
    /\ user_submissions = UserSubmissions("")
    /\ added = <<>>
    /\ users = ScenarioUsers
    /\ cost_per_question \in {CostPerQuestionDefault, 25}
    /\ idx = 1
    /\ all_user_submissions = <<>>
    /\ printed = <<>>
    /\ expenses = <<>>

\* FetchUser with the answer of the source fixed: every query is answered with the
\* events of the scenario
FetchScenarioUser ==
    /\ pc = "loop"
    /\ idx <= Len(users)
    /\ user_submissions' =
          get_user_detailed_submissions_by_date_range(
             users[idx].leetcode_id, submissions, start_date, end_date,
             min_hours_between_submissions, tz)
    /\ all_user_submissions' = Append(all_user_submissions, user_submissions')
    /\ pc' = "decide"
    /\ UNCHANGED <<argVars, engineVars, added, users, cost_per_question, idx, printed,
                   expenses>>

NextScenario ==
    \/ FetchScenarioUser
    \/ GoalMet
    \/ CreateExpense
    \/ Return

SpecScenario == InitScenario /\ [][NextScenario]_vars

(***************************************************************************)
(* SpecLimit: one call of hold_accountable for a user whose quota is above *)
(* the number of events requested from the source, and a peer of quota 0;  *)
(* the source answers with up to that number of events                     *)
(***************************************************************************)
\* get_recent_accepted_submissions(username, limit=20)
FetchLimit == 20

TieredSlugs == <<"two-sum", "lru-cache", "merge-k-sorted-lists">>

\* an answer of n events that cycles through the first k problems, consecutive
\* events step hours apart
LimitFeed(n, k, step) ==
    [j \in 1 .. n |-> EventAt(TieredSlugs[((j - 1) % k) + 1], (j - 1) * step)]

LimitFeeds ==
    {LimitFeed(n, k, step) :
        n \in 0 .. FetchLimit, k \in 1 .. Len(TieredSlugs), step \in {0, 1, DefaultMinHours}}

LimitUsers ==
    <<[name |-> "ann", leetcode_id |-> <<"ann", "_lc">>,
       splitwise_id |-> Some(SplitwiseIdOf["ann"]), splitwise_group_id |-> Some(7),
       email_address |-> None, min_questions |-> FetchLimit + 1, is_active |-> TRUE],
      [name |-> "bob", leetcode_id |-> <<"bob", "_lc">>,
       splitwise_id |-> Some(SplitwiseIdOf["bob"]), splitwise_group_id |-> Some(7),
       email_address |-> None, min_questions |-> 0, is_active |-> TRUE]>>

InitLimit ==
    /\ pc = "loop"
    /\ tz \in TZOffsets
    /\ start_date = fromtimestamp(0, tz)
    /\ end_date = fromtimestamp(FetchLimit * DefaultMinHours * SecondsPerHour, tz)
    /\ min_hours_between_submissions \in {0, 1, DefaultMinHours}
    /\ submissions \in LimitFeeds
    /\ fpos = 0
    /\ filtered_submissions = <<>>
    /\ pos = 0
    /\ question_submissions = <<>>
    /\ unique_submissions = <<>>
    /\ user_submissions = UserSubmissions("")
    /\ added = <<>>
    /\ users = LimitUsers
    /\ cost_per_question = CostPerQuestionDefault
    /\ idx = 1
    /\ all_user_submissions = <<>>
    /\ printed = <<>>
    /\ expenses = <<>>

SpecLimit == InitLimit /\ [][NextScenario]_vars

(***************************************************************************)
(* SpecIsolation: one call of hold_accountable with the fetch of a user    *)
(* in two steps: the source answers, then the record is built from the     *)
(* answer                                                                  *)
(***************************************************************************)
\* the users of the runs: ann with a quota and a billing identity, bob in every shape
IsolationPool ==
    {u \in UserPool :
        u.name = "ann" => (u.min_questions = MaxQuota /\ u.splitwise_id /= None)}

InitIsolation ==
    /\ pc = "loop"
    /\ tz \in TZOffsets
    /\ start_date = fromtimestamp(HalfHour, tz)
    /\ end_date = fromtimestamp(MaxTick * HalfHour, tz)
    /\ min_hours_between_submissions = MaxGapHours
    /\ NoEngineLocals
    /\ user_submissions = UserSubmissions("")
    /\ added = <<>>
    /\ users \in SeqsUpTo(IsolationPool, MaxUsers) \ {<<>>}
    /\ cost_per_question = CostPerQuestionDefault
    /\ idx = 1
    /\ all_user_submissions = <<>>
    /\ printed = <<>>
    /\ expenses = <<>>

\* get_recent_accepted_submissions(username, limit=20) returns for the user
SourceAnswers ==
    /\ pc = "loop"
    /\ idx <= Len(users)
    /\ \E raw \in RunFeeds : submissions' = raw
    /\ pc' = "fetched"
    /\ UNCHANGED <<argVars, fpos, filtered_submissions, pos, question_submissions,
                   unique_submissions, user_submissions, added, runVars>>

\* a variant of BuildRecord whose new record shares the lists of the record built
\* before it
M_BuildRecord_SharedLists ==
    /\ pc = "fetched"
    /\ user_submissions' =
          AddFrom([user_submissions EXCEPT !.username = users[idx].leetcode_id],
                  get_unique_questions_between_dates(
                     submissions, start_date, end_date, min_hours_between_submissions, tz),
                  1, tz)
    /\ all_user_submissions' = Append(all_user_submissions, user_submissions')
    /\ submissions' = <<>>
    /\ pc' = "decide"
    /\ UNCHANGED <<argVars, fpos, filtered_submissions, pos, question_submissions,
                   unique_submissions, added, users, cost_per_question, idx, printed,
                   expenses>>

\* the rest of get_user_detailed_submissions_by_date_range on the answer, and
\* all_user_submissions.append(user_submissions)
BuildRecord ==
    /\ pc = "fetched"
    /\ user_submissions' =
          AddFrom(UserSubmissions(users[idx].leetcode_id),
                  get_unique_questions_between_dates(
                     submissions, start_date, end_date, min_hours_between_submissions, tz),
                  1, tz)
    /\ all_user_submissions' = Append(all_user_submissions, user_submissions')
    /\ submissions' = <<>>
    /\ pc' = "decide"
    /\ UNCHANGED <<argVars, fpos, filtered_submissions, pos, question_submissions,
                   unique_submissions, added, users, cost_per_question, idx, printed,
                   expenses>>

NextIsolation ==
    \/ SourceAnswers
    \/ BuildRecord
    \/ GoalMet
    \/ NoSplitwiseId
    \/ CreateExpense
    \/ Return

SpecIsolation == InitIsolation /\ [][NextIsolation]_vars

(***************************************************************************)
(* Properties of the submission pipeline (SpecEngine, SpecRecord)          *)
(***************************************************************************)
Range(seq) == {seq[j] : j \in 1 .. Len(seq)}

Count(seq, P(_)) == Cardinality({j \in 1 .. Len(seq) : P(seq[j])})

IsAscending(seq) ==
    \A j \in 1 .. Len(seq) - 1 : seq[j].timestamp <= seq[j + 1].timestamp

\* the watermark of a problem id: the time of its last accepted solve
Watermark(qs, slug) == qs[slug][Len(qs[slug])]

GapSeconds == min_hours_between_submissions * SecondsPerHour

\* the dedup loop has walked every in-window event and has not returned yet
DedupFinished == pc = "dedup" /\ pos > Len(filtered_submissions)

\* the filter loop has walked every event of the source and has not returned yet
FilterFinished == pc = "filter" /\ fpos > Len(submissions)

Tiers == {EASY, MEDIUM, HARD}

\* C1: the dedup pass walks the in-window events in ascending timestamp order; the
\* first event of a problem id is accepted and sets the id's watermark; a later
\* event of the id is accepted iff its time minus the watermark is at least the
\* minimum gap (inclusive); the watermark moves to the event's time when the event
\* is accepted and stays when it is rejected; other ids' watermarks never move.
C1_DedupRule ==
    [][(pc = "dedup" /\ pos <= Len(filtered_submissions)) =>
          LET e == filtered_submissions[pos]
              s == e.titleSlug
              t == fromtimestamp(e.timestamp, tz)
              seen == s \in DOMAIN question_submissions
              accepted == unique_submissions' = Append(unique_submissions, e)
              rejected == unique_submissions' = unique_submissions
          IN  /\ IsAscending(filtered_submissions)
              /\ accepted \/ rejected
              /\ ~seen => accepted
              /\ seen => (accepted <=> t - Watermark(question_submissions, s) >= GapSeconds)
              /\ s \in DOMAIN question_submissions'
              /\ accepted => Watermark(question_submissions', s) = t
              /\ rejected =>
                    Watermark(question_submissions', s) = Watermark(question_submissions, s)
              /\ \A o \in DOMAIN question_submissions \ {s} :
                    /\ o \in DOMAIN question_submissions'
                    /\ Watermark(question_submissions', o) = Watermark(question_submissions, o)
    ]_vars

\* C1 witness: three in-window events of one problem id; the second is closer than
\* the gap to the first and was rejected; the third is exactly the gap after the
\* first (closer than the gap to the second) and was accepted.
C1_Witness ==
    /\ DedupFinished
    /\ min_hours_between_submissions > 0
    /\ Len(filtered_submissions) = 3
    /\ filtered_submissions[2].titleSlug = filtered_submissions[1].titleSlug
    /\ filtered_submissions[3].titleSlug = filtered_submissions[1].titleSlug
    /\ filtered_submissions[3].timestamp - filtered_submissions[1].timestamp = GapSeconds
    /\ filtered_submissions[3].timestamp - filtered_submissions[2].timestamp < GapSeconds
    /\ filtered_submissions[2].timestamp > filtered_submissions[1].timestamp
    /\ unique_submissions = <<filtered_submissions[1], filtered_submissions[3]>>

AllSolves(rec) == rec.easy_submissions \o rec.medium_submissions \o rec.hard_submissions

Distance(a, b) == IF a >= b THEN a - b ELSE b - a

\* C2: any two solves of the returned record (one user) with the same problem id
\* have times at least the minimum gap apart; so have any two accepted events.
C2_SolvesGapApart ==
    pc = "done" =>
       /\ \A j, k \in 1 .. Len(AllSolves(user_submissions)) :
             (j /= k /\ AllSolves(user_submissions)[j].url = AllSolves(user_submissions)[k].url)
                => Distance(AllSolves(user_submissions)[j].submission_time,
                            AllSolves(user_submissions)[k].submission_time) >= GapSeconds
       /\ \A j, k \in 1 .. Len(unique_submissions) :
             (j /= k /\ unique_submissions[j].titleSlug = unique_submissions[k].titleSlug)
                => Distance(unique_submissions[j].timestamp,
                            unique_submissions[k].timestamp) >= GapSeconds

\* C2 witness: a returned record with two solves of one problem under a positive gap
C2_Witness ==
    /\ pc = "done"
    /\ min_hours_between_submissions > 0
    /\ \E j, k \in 1 .. Len(AllSolves(user_submissions)) :
          /\ j < k
          /\ AllSolves(user_submissions)[j].url = AllSolves(user_submissions)[k].url

\* an event as the source returned it, without the difficulty written into it
AsReturned(e) == [titleSlug |-> e.titleSlug, title |-> e.title, timestamp |-> e.timestamp]

AsReturnedSeq(seq) == [j \in 1 .. Len(seq) |-> AsReturned(seq[j])]

\* the window of the claim: startTime <= t <= endTime on the event's local time
WithinWindow(e) ==
    /\ start_date <= fromtimestamp(e.timestamp, tz)
    /\ fromtimestamp(e.timestamp, tz) <= end_date

\* C3: the window filter keeps exactly the events with startTime <= t <= endTime,
\* in the order of the source: at every point of the loop the filtered list is the
\* in-window part of the events walked so far.
C3_WindowInclusive ==
    pc = "filter" =>
       AsReturnedSeq(filtered_submissions) =
          SelectSeq(AsReturnedSeq(SubSeq(submissions, 1, fpos - 1)), WithinWindow)

\* C3 witness: the filter has walked an event exactly at startTime and one exactly at
\* endTime and kept both, and has dropped one before startTime
C3_Witness ==
    /\ FilterFinished
    /\ start_date < end_date
    /\ \E e \in Range(filtered_submissions) : fromtimestamp(e.timestamp, tz) = start_date
    /\ \E e \in Range(filtered_submissions) : fromtimestamp(e.timestamp, tz) = end_date
    /\ \E e \in Range(submissions) : fromtimestamp(e.timestamp, tz) < start_date
    /\ Len(filtered_submissions) = 2

\* C4 as claimed: with a minimum gap of 0 only the first occurrence of each problem
\* id is accepted, so the accepted solves are as many as the distinct ids in window.
C4_ZeroGapDedupsById ==
    (DedupFinished /\ min_hours_between_submissions = 0) =>
       Len(unique_submissions) =
          Cardinality({e.titleSlug : e \in Range(filtered_submissions)})

\* C4 amended: with a minimum gap of 0 the dedup pass rejects nothing: every
\* in-window event is accepted, in timestamp order.
C4_ZeroGapAcceptsAll ==
    (DedupFinished /\ min_hours_between_submissions = 0) =>
       unique_submissions = filtered_submissions

\* C4 witness: gap 0, two in-window events of one problem id at the same instant,
\* both accepted
C4_Witness ==
    /\ DedupFinished
    /\ min_hours_between_submissions = 0
    /\ Len(filtered_submissions) >= 2
    /\ filtered_submissions[1].titleSlug = filtered_submissions[2].titleSlug
    /\ filtered_submissions[1].timestamp = filtered_submissions[2].timestamp
    /\ Len(unique_submissions) = Len(filtered_submissions)

IsEasy(submission) == submission.difficulty = EASY

IsMedium(submission) == submission.difficulty = MEDIUM

IsHard(submission) == submission.difficulty = HARD

\* C5: after any sequence of add_submission calls, total_questions is the sum of the
\* three counts, each count is the length of its list, and each list holds exactly
\* the submissions of its tier that were added, in the order they were added.
C5_TalliesMatchLists ==
    pc = "record" =>
       /\ total_questions(user_submissions) =
             easy_count(user_submissions) + medium_count(user_submissions)
                + hard_count(user_submissions)
       /\ easy_count(user_submissions) = Len(user_submissions.easy_submissions)
       /\ medium_count(user_submissions) = Len(user_submissions.medium_submissions)
       /\ hard_count(user_submissions) = Len(user_submissions.hard_submissions)
       /\ user_submissions.easy_submissions = SelectSeq(added, IsEasy)
       /\ user_submissions.medium_submissions = SelectSeq(added, IsMedium)
       /\ user_submissions.hard_submissions = SelectSeq(added, IsHard)

\* C5 witness: a record that received a submission of every tier and one of no tier
C5_Witness ==
    /\ pc = "record"
    /\ Len(added) = MaxAdds
    /\ easy_count(user_submissions) >= 1
    /\ medium_count(user_submissions) + hard_count(user_submissions) >= 1
    /\ \E submission \in Range(added) : submission.difficulty \notin Tiers

UnknownDifficulty(question) == question.difficulty \notin Tiers

\* C6 as claimed: an accepted solve of unknown difficulty counts toward
\* total_questions and toward no tier, so total_questions exceeds the sum of the
\* tier counts by the number of such solves.
C6_UnknownCountsTowardTotal ==
    pc = "done" =>
       total_questions(user_submissions) =
          easy_count(user_submissions) + medium_count(user_submissions)
             + hard_count(user_submissions) + Count(unique_submissions, UnknownDifficulty)

\* C6 amended: an accepted solve of unknown difficulty is left out of the record:
\* it counts toward no tier and not toward total_questions, which is the number of
\* accepted solves of known difficulty and equals the sum of the tier counts.
C6_UnknownLeftOut ==
    pc = "done" =>
       /\ total_questions(user_submissions) =
             Len(unique_submissions) - Count(unique_submissions, UnknownDifficulty)
       /\ easy_count(user_submissions) + medium_count(user_submissions)
             + hard_count(user_submissions) = total_questions(user_submissions)
       /\ \A solve \in Range(AllSolves(user_submissions)) : solve.difficulty \in Tiers

\* C6 witness: a returned record built from accepted solves of which one has a known
\* and one an unknown difficulty
C6_Witness ==
    /\ pc = "done"
    /\ Count(unique_submissions, UnknownDifficulty) >= 1
    /\ total_questions(user_submissions) >= 1

(***************************************************************************)
(* Properties of hold_accountable (Spec)                                   *)
(***************************************************************************)
\* the users whose record has been appended
Fetched == 1 .. Len(all_user_submissions)

\* the users whose iteration of the loop has ended
Decided == 1 .. Len(printed)

ExpensesFor(j) == {n \in 1 .. Len(expenses) : expenses[n].user_index = j}

\* the shortfall of the claims: quota minus total_questions, when positive
Shortfall(j) ==
    IF users[j].min_questions > total_questions(all_user_submissions[j])
    THEN users[j].min_questions - total_questions(all_user_submissions[j])
    ELSE 0

\* C7: a user whose total_questions is at least the quota (exactly equal included)
\* ends in GoalMet: create_expense is never called for that user, with or without a
\* billing identity, and the user's iteration ends with the goal-met line.
C7_GoalMetNoExpense ==
    /\ \A j \in Fetched :
          total_questions(all_user_submissions[j]) >= users[j].min_questions
             => ExpensesFor(j) = {}
    /\ \A j \in Decided :
          total_questions(all_user_submissions[j]) >= users[j].min_questions
             => printed[j] = MetGoalLine(users[j])

\* C7 witness: a returned run with a user who has a billing identity and whose
\* total_questions equals a positive quota
C7_Witness ==
    /\ pc = "returned"
    /\ \E j \in Decided :
          /\ users[j].min_questions > 0
          /\ total_questions(all_user_submissions[j]) = users[j].min_questions
          /\ users[j].splitwise_id /= None
          /\ printed[j] = MetGoalLine(users[j])

\* C8: a user with a positive shortfall and no billing identity ends in
\* NoBillingIdentity: create_expense is never called for that user, and when the run
\* returns the user's record is in the returned list at the user's position.
C8_NoBillingIdentitySkipped ==
    /\ \A j \in Fetched :
          (Shortfall(j) > 0 /\ users[j].splitwise_id = None) => ExpensesFor(j) = {}
    /\ \A j \in Decided :
          (Shortfall(j) > 0 /\ users[j].splitwise_id = None)
             => printed[j] = NoSplitwiseIdLine(users[j])
    /\ pc = "returned" =>
          /\ Len(all_user_submissions) = Len(users)
          /\ \A j \in 1 .. Len(users) :
                all_user_submissions[j].username = users[j].leetcode_id

\* C8 witness: a returned run in which a user without billing identity fell short
\* and another user was charged
C8_Witness ==
    /\ pc = "returned"
    /\ expenses /= <<>>
    /\ \E j \in Decided :
          /\ Shortfall(j) > 0
          /\ users[j].splitwise_id = None
          /\ ExpensesFor(j) = {}
          /\ all_user_submissions[j].username = users[j].leetcode_id

\* C9: for a user with positive shortfall and a billing identity whose iteration has
\* ended, exactly one expense was submitted; its total is shortfall times
\* cost_per_question, and the user's own share line owes the whole charge and pays 0.
C9_OneExpenseOfFullCharge ==
    \A j \in Decided :
       (Shortfall(j) > 0 /\ users[j].splitwise_id /= None) =>
          /\ Cardinality(ExpensesFor(j)) = 1
          /\ \A n \in ExpensesFor(j) :
                LET data == expenses[n].expense_data
                    charge == Shortfall(j) * cost_per_question
                IN  /\ data.cost = charge
                    /\ data.users[1].user_id = users[j].splitwise_id
                    /\ FracEq(data.users[1].owed_share, Amount(charge))
                    /\ FracEq(data.users[1].paid_share, Amount(0))

\* C9 witness: a returned run with a user charged for a shortfall of two questions
C9_Witness ==
    /\ pc = "returned"
    /\ \E j \in Decided :
          /\ Shortfall(j) >= 2
          /\ users[j].splitwise_id /= None
          /\ \E n \in ExpensesFor(j) :
                expenses[n].expense_data.cost = Shortfall(j) * cost_per_question

\* the positions of the user list other than j, in order
RECURSIVE OthersOf(_, _)
OthersOf(j, n) ==
    IF n = 0
    THEN <<>>
    ELSE IF n = j THEN OthersOf(j, n - 1) ELSE Append(OthersOf(j, n - 1), n)

\* C10 as claimed: in every submitted expense the paying side has exactly one share
\* line per other user of the run (number of users minus one, value-equal records
\* included), each paying charge / peer_count and owing 0.
C10_OneShareLinePerOtherUser ==
    \A n \in 1 .. Len(expenses) :
       LET data == expenses[n].expense_data
           peers == OthersOf(expenses[n].user_index, Len(users))
           paying == Tail(data.users)
       IN  /\ Len(paying) = Len(users) - 1
           /\ \A k \in 1 .. Len(paying) :
                 /\ paying[k].user_id = users[peers[k]].splitwise_id
                 /\ FracEq(paying[k].paid_share, Frac(data.cost, Len(users) - 1))
                 /\ FracEq(paying[k].owed_share, Amount(0))

\* C11 as claimed: in a solo run (the user list holds one user, who therefore has no
\* peers) hold_accountable submits no expense: the charge is skipped.
C11_SoloRunSubmitsNoExpense ==
    Len(users) = 1 => expenses = <<>>

\* the line printed when user j's iteration ended names the state the user ended in
EndedGoalMet(j) == printed[j] = MetGoalLine(users[j])

EndedNoBillingIdentity(j) == printed[j] = NoSplitwiseIdLine(users[j])

EndedCharged(j) ==
    printed[j] =
       CreatedExpenseLine(users[j],
                          Cost(users[j], all_user_submissions[j], cost_per_question))

TerminalStates(j) ==
    (IF EndedGoalMet(j) THEN {"GoalMet"} ELSE {})
       \cup (IF EndedNoBillingIdentity(j) THEN {"NoBillingIdentity"} ELSE {})
       \cup (IF EndedCharged(j) THEN {"Charged"} ELSE {})

IsPrefix(s, t) == Len(s) <= Len(t) /\ SubSeq(t, 1, Len(s)) = s

\* C12: within one run every user is Pending until the iteration of the loop for
\* that user ends, and is then in exactly one of GoalMet, NoBillingIdentity, Charged
\* for the rest of the run; the users are taken in order and never revisited; each
\* user's submissions are fetched once (one record per user whose turn has come);
\* create_expense is called at most once per user, exactly for the users that ended
\* in Charged; a run that returns has left no user Pending.
C12_OneTerminalStateNoRetry ==
    [][/\ IsPrefix(printed, printed')
       /\ IsPrefix(all_user_submissions, all_user_submissions')
       /\ IsPrefix(expenses, expenses')
       /\ idx' \in {idx, idx + 1}
       /\ Len(printed') = idx' - 1
       /\ Len(all_user_submissions') \in {idx' - 1, idx'}
       /\ Len(all_user_submissions') <= Len(users)
       /\ \A j \in 1 .. Len(printed') : Cardinality(TerminalStates(j)') = 1
       /\ \A j \in 1 .. Len(users) :
             /\ Cardinality(ExpensesFor(j)') <= 1
             /\ ExpensesFor(j)' /= {} <=>
                   (j \in 1 .. Len(printed') /\ TerminalStates(j)' = {"Charged"})
       /\ pc' = "returned" => Len(printed') = Len(users)
    ]_vars

\* C12 witness: a returned run of two users, the first charged once and the second
\* ended in NoBillingIdentity
C12_Witness ==
    /\ pc = "returned"
    /\ Len(users) = 2
    /\ TerminalStates(1) = {"Charged"}
    /\ Cardinality(ExpensesFor(1)) = 1
    /\ TerminalStates(2) = {"NoBillingIdentity"}
    /\ ExpensesFor(2) = {}

\* the run was ended by an exception raised while the submissions of user idx were
\* fetched or aggregated: no record was appended for that user
SourceFailed == pc = "raised" /\ Len(all_user_submissions) = idx - 1

\* C13 as claimed: a failure while fetching or aggregating one user's submissions is
\* scoped to that user: when the run has ended, every other user of the list has been
\* processed (record emitted, outcome reached).
C13_SourceFailureScopedToUser ==
    SourceFailed =>
       \A j \in 1 .. Len(users) : j /= idx => (j \in Fetched /\ j \in Decided)

\* C14 as claimed: a failed difficulty lookup for an in-window event does not abort
\* the user's pipeline: no call ends with the exception of get_question_detail.
C14_FailedLookupDoesNotAbort ==
    pc /= "raised in get_question_detail"

\* C15: the list hold_accountable returns holds exactly one record per input user, in
\* the order of the user list: the record at position i carries the LeetCode id of
\* the i-th user; while the run lasts, the list is the records of the users whose
\* turn has come, in that order.
C15_OneRecordPerUserInOrder ==
    /\ pc \in {"loop", "decide", "returned"} =>
          /\ Len(all_user_submissions) <= Len(users)
          /\ \A i \in 1 .. Len(all_user_submissions) :
                all_user_submissions[i].username = users[i].leetcode_id
          /\ pc = "decide" => all_user_submissions[idx] = user_submissions
    /\ pc = "returned" => Len(all_user_submissions) = Len(users)

\* C15 witness: a returned list for two users of different LeetCode ids whose records
\* differ in their solves
C15_Witness ==
    /\ pc = "returned"
    /\ Len(users) = 2
    /\ users[1].leetcode_id /= users[2].leetcode_id
    /\ total_questions(all_user_submissions[1]) /= total_questions(all_user_submissions[2])
    /\ all_user_submissions[1].username = users[1].leetcode_id
    /\ all_user_submissions[2].username = users[2].leetcode_id

\* C16: running the pipeline (dedup and aggregation) again on the same raw event list
\* with the same window and the same gap returns a record with identical contents:
\* the same solves in the same tier lists in the same order. The second run reads the
\* list as the first run left it, with the difficulty written into its events.
C16_RepeatedRunSameRecord ==
    pc = "call" =>
       \A j, k \in 1 .. Len(all_user_submissions) :
          all_user_submissions[j] = all_user_submissions[k]

\* C16 witness: two runs on a list of which the first run detailed an event and
\* rejected a duplicate; both runs returned a record with a solve
C16_Witness ==
    /\ pc = "call"
    /\ Len(all_user_submissions) = 2
    /\ total_questions(all_user_submissions[2]) >= 1
    /\ min_hours_between_submissions > 0
    /\ Len(submissions) = 2
    /\ submissions[1].titleSlug = submissions[2].titleSlug
    /\ \A j \in 1 .. 2 : "difficulty" \in DOMAIN submissions[j]
    /\ total_questions(all_user_submissions[2]) = 1

Max(a, b) == IF a >= b THEN a ELSE b

\* C17 as claimed: for a fixed quota the shortfall computed for a user equals
\* max(0, quota - total_questions), is non-negative, and is strictly decreasing in
\* total_questions.
C17_ShortfallClampedAndStrict ==
    /\ \A j \in Fetched :
          /\ num_missed_questions(users[j], all_user_submissions[j]) =
                Max(0, users[j].min_questions - total_questions(all_user_submissions[j]))
          /\ num_missed_questions(users[j], all_user_submissions[j]) >= 0
    /\ \A j, k \in Fetched :
          (/\ users[j].min_questions = users[k].min_questions
           /\ total_questions(all_user_submissions[j])
                 < total_questions(all_user_submissions[k]))
             => num_missed_questions(users[j], all_user_submissions[j])
                   > num_missed_questions(users[k], all_user_submissions[k])

\* C17 amended: the value computed for a user is quota - total_questions, without a
\* clamp: for a fixed quota it is strictly decreasing in total_questions, it is
\* negative when total_questions exceeds the quota, and it equals
\* max(0, quota - total_questions) exactly when total_questions <= quota. The
\* clamped shortfall max(0, quota - total_questions) is non-negative and
\* non-increasing in total_questions. A charge is made only for a positive value and
\* is that value times cost_per_question.
C17_ShortfallUnclampedStrict ==
    /\ \A j \in Fetched :
          LET quota == users[j].min_questions
              total == total_questions(all_user_submissions[j])
              missed == num_missed_questions(users[j], all_user_submissions[j])
          IN  /\ missed = quota - total
              /\ missed = Max(0, quota - total) <=> total <= quota
              /\ missed < 0 <=> total > quota
              /\ Shortfall(j) = Max(0, quota - total)
              /\ Shortfall(j) >= 0
              /\ \A n \in ExpensesFor(j) :
                    /\ missed > 0
                    /\ expenses[n].expense_data.cost = missed * cost_per_question
    /\ \A j, k \in Fetched :
          (/\ users[j].min_questions = users[k].min_questions
           /\ total_questions(all_user_submissions[j])
                 < total_questions(all_user_submissions[k]))
             => /\ num_missed_questions(users[j], all_user_submissions[j])
                      > num_missed_questions(users[k], all_user_submissions[k])
                /\ Shortfall(j) >= Shortfall(k)

\* C17 witness: two users of the same quota, both with more solves than the quota
\* and with different totals: the computed values are negative and differ, the
\* clamped shortfall is 0 for both
C17_Witness ==
    /\ pc = "returned"
    /\ \E j, k \in Fetched :
          /\ users[j].min_questions = users[k].min_questions
          /\ total_questions(all_user_submissions[j]) > users[j].min_questions
          /\ total_questions(all_user_submissions[k])
                > total_questions(all_user_submissions[j])
          /\ num_missed_questions(users[k], all_user_submissions[k])
                < num_missed_questions(users[j], all_user_submissions[j])
          /\ Shortfall(j) = Shortfall(k)

\* the source's answer is the scenario's events with the second event of the first
\* problem delay hours after the first, in some order
IsScenario(delay) == submissions \in Reorderings(ScenarioFeed(delay))

\* C18: end to end, for a user of quota 5 with in-window events of 3 distinct problem
\* ids and one more event of the first id, under the gap of 24 hours: when the extra
\* event is 30 hours after the first, total_questions = 4, the shortfall is 1 and
\* the charge is 1 * cost_per_question; when it is 10 hours after the first it is
\* rejected, total_questions = 3 and the shortfall is 2 (charge 2 * cost_per_question).
C18_ScenarioTotals ==
    (1 \in Fetched /\ users = ScenarioUsers) =>
       LET total == total_questions(all_user_submissions[1])
           missed == num_missed_questions(users[1], all_user_submissions[1])
       IN  /\ IsScenario(30) =>
                /\ total = 4
                /\ missed = 1
                /\ 1 \in Decided =>
                      /\ Cardinality(ExpensesFor(1)) = 1
                      /\ \A n \in ExpensesFor(1) :
                            expenses[n].expense_data.cost = 1 * cost_per_question
           /\ IsScenario(10) =>
                /\ total = 3
                /\ missed = 2
                /\ 1 \in Decided =>
                      /\ Cardinality(ExpensesFor(1)) = 1
                      /\ \A n \in ExpensesFor(1) :
                            expenses[n].expense_data.cost = 2 * cost_per_question

\* C18 witness: a returned run of the scenario with the extra event 30 hours late,
\* returned by the source ahead of the first event, and the user charged for one
\* question
C18_Witness ==
    /\ pc = "returned"
    /\ users = ScenarioUsers
    /\ IsScenario(30)
    /\ submissions[1] = EventAt("two-sum", 30)
    /\ total_questions(all_user_submissions[1]) = 4
    /\ \E n \in ExpensesFor(1) : expenses[n].expense_data.cost = cost_per_question

\* user j has more solves than the quota and no billing identity
ExceedsWithoutIdentity(j) ==
    /\ total_questions(all_user_submissions[j]) > users[j].min_questions
    /\ users[j].splitwise_id = None

\* C19 as claimed: a user who exceeds the quota but has no billing identity ends the
\* run in NoBillingIdentity, with no charge, and the user's record is in the
\* returned list.
C19_ExceedingUserEndsNoBillingIdentity ==
    /\ \A j \in Decided :
          ExceedsWithoutIdentity(j) =>
             /\ printed[j] = NoSplitwiseIdLine(users[j])
             /\ ExpensesFor(j) = {}
    /\ pc = "returned" =>
          \A j \in 1 .. Len(users) : all_user_submissions[j].username = users[j].leetcode_id

\* C19 amended: a user who exceeds the quota but has no billing identity ends the
\* run in GoalMet, because the goal is checked before the billing identity: the
\* goal-met line is printed, the billing identity is never looked at, no expense is
\* submitted for the user (zero charge), and the user's record, with its solves, is
\* in the returned list at the user's position.
C19_ExceedingUserEndsGoalMet ==
    /\ \A j \in Fetched : ExceedsWithoutIdentity(j) => ExpensesFor(j) = {}
    /\ \A j \in Decided :
          ExceedsWithoutIdentity(j) =>
             /\ printed[j] = MetGoalLine(users[j])
             /\ printed[j] /= NoSplitwiseIdLine(users[j])
    /\ pc = "returned" =>
          \A j \in 1 .. Len(users) :
             ExceedsWithoutIdentity(j) =>
                /\ all_user_submissions[j].username = users[j].leetcode_id
                /\ total_questions(all_user_submissions[j]) > users[j].min_questions

\* C19 witness: a returned run with a user without billing identity whose solves
\* exceed the quota, ended in GoalMet with no expense, next to a charged user
C19_Witness ==
    /\ pc = "returned"
    /\ expenses /= <<>>
    /\ \E j \in Decided :
          /\ ExceedsWithoutIdentity(j)
          /\ printed[j] = MetGoalLine(users[j])
          /\ ExpensesFor(j) = {}

\* s is t with some positions left out
RECURSIVE IsSubsequence(_, _)
IsSubsequence(s, t) ==
    IF s = <<>>
    THEN TRUE
    ELSE IF t = <<>>
         THEN FALSE
         ELSE IF Head(s) = Head(t)
              THEN IsSubsequence(Tail(s), Tail(t))
              ELSE IsSubsequence(s, Tail(t))

\* the number of positions of seq that hold x
Occurrences(seq, x) == Cardinality({j \in 1 .. Len(seq) : seq[j] = x})

SameElements(s, t) ==
    /\ Len(s) = Len(t)
    /\ \A x \in Range(s) \cup Range(t) : Occurrences(s, x) = Occurrences(t, x)

SolvesAscending(list) ==
    \A j \in 1 .. Len(list) - 1 : list[j].submission_time <= list[j + 1].submission_time

AsSubmissions(questions) == [j \in 1 .. Len(questions) |-> Submission(questions[j], tz)]

\* C20: the sort puts the in-window events in ascending timestamp order without
\* adding or losing one; the accepted solves are a subsequence of that sorted list
\* (nothing invented, duplicated or reordered); after the partition each of the
\* easy, medium and hard lists holds the accepted solves of its tier in that order,
\* so each is in ascending timestamp order.
C20_AcceptedInTimestampOrder ==
    /\ pc = "sort" =>
          /\ IsAscending(SortByTimestamp(filtered_submissions))
          /\ SameElements(SortByTimestamp(filtered_submissions), filtered_submissions)
    /\ pc = "dedup" =>
          /\ IsAscending(filtered_submissions)
          /\ IsSubsequence(unique_submissions, SubSeq(filtered_submissions, 1, pos - 1))
    /\ pc \in {"aggregate", "done"} => IsAscending(unique_submissions)
    /\ pc = "done" =>
          /\ user_submissions.easy_submissions =
                AsSubmissions(SelectSeq(unique_submissions, IsEasy))
          /\ user_submissions.medium_submissions =
                AsSubmissions(SelectSeq(unique_submissions, IsMedium))
          /\ user_submissions.hard_submissions =
                AsSubmissions(SelectSeq(unique_submissions, IsHard))
          /\ SolvesAscending(user_submissions.easy_submissions)
          /\ SolvesAscending(user_submissions.medium_submissions)
          /\ SolvesAscending(user_submissions.hard_submissions)

\* C20 witness: a returned record whose easy list holds two solves of different
\* times, with a medium solve accepted between them
C20_Witness ==
    /\ pc = "done"
    /\ Len(user_submissions.easy_submissions) = 2
    /\ user_submissions.easy_submissions[1].submission_time
          < user_submissions.easy_submissions[2].submission_time
    /\ Len(unique_submissions) = 3
    /\ unique_submissions[2].difficulty = MEDIUM
    /\ Len(user_submissions.medium_submissions) = 1

\* C21: users do not interfere: the record appended for a user is the pipeline's
\* result on that user's own events, the window and the gap, under the user's
\* LeetCode id, whatever the other users, their quotas, billing identities and
\* positions and whatever was computed before; no other step of the run appends to,
\* removes from or changes the records already in the list.
C21_RecordFromOwnEventsOnly ==
    [][/\ pc = "fetched" =>
             all_user_submissions' =
                Append(all_user_submissions,
                       get_user_detailed_submissions_by_date_range(
                          users[idx].leetcode_id, submissions, start_date, end_date,
                          min_hours_between_submissions, tz))
       /\ pc /= "fetched" => all_user_submissions' = all_user_submissions
       /\ users' = users
    ]_vars

\* C21 witness: a returned run of two users who differ in quota and billing
\* identity; the first has two solves, the second none, and the first was not
\* charged while the second was skipped or charged on its own record
C21_Witness ==
    /\ pc = "returned"
    /\ Len(users) = 2
    /\ users[1].min_questions /= users[2].min_questions
    /\ users[1].splitwise_id /= users[2].splitwise_id
    /\ total_questions(all_user_submissions[1]) = 2
    /\ total_questions(all_user_submissions[2]) = 0
    /\ all_user_submissions[2] = UserSubmissions(users[2].leetcode_id)

FracAdd(x, y) == Frac(x.num * y.den + y.num * x.den, x.den * y.den)

RECURSIVE SumPaid(_)
SumPaid(lines) ==
    IF lines = <<>> THEN Amount(0) ELSE FracAdd(lines[1].paid_share, SumPaid(Tail(lines)))

RECURSIVE SumOwed(_)
SumOwed(lines) ==
    IF lines = <<>> THEN Amount(0) ELSE FracAdd(lines[1].owed_share, SumOwed(Tail(lines)))

\* C22 as claimed: in every expense submitted in a run with at least one peer (a user
\* list of two or more users) the paid amounts of the share lines sum to the owed
\* amounts, and both sums equal the expense total.
C22_SharesBalance ==
    Len(users) >= 2 =>
       \A n \in 1 .. Len(expenses) :
          LET data == expenses[n].expense_data
          IN  /\ FracEq(SumPaid(data.users), Amount(data.cost))
              /\ FracEq(SumOwed(data.users), Amount(data.cost))
              /\ FracEq(SumPaid(data.users), SumOwed(data.users))

\* the same for the expenses whose charged user has a peer that is not value-equal
\* to the charged user
SharesBalanceWithDistinctPeer ==
    \A n \in 1 .. Len(expenses) :
       LET data == expenses[n].expense_data
       IN  OtherUsers(users, users[expenses[n].user_index]) /= <<>> =>
              /\ FracEq(SumPaid(data.users), Amount(data.cost))
              /\ FracEq(SumOwed(data.users), Amount(data.cost))

\* C23 as claimed: every share line of every expense handed to create_expense names
\* a present billing identity.
C23_ShareLinesNamePresentIdentity ==
    \A n \in 1 .. Len(expenses) :
       \A k \in 1 .. Len(expenses[n].expense_data.users) :
          Truthy(expenses[n].expense_data.users[k].user_id)

\* e is the earliest event of its problem id among the in-window events of list
EarliestInWindow(e, list) ==
    /\ WithinWindow(e)
    /\ \A o \in Range(list) :
          (WithinWindow(o) /\ o.titleSlug = e.titleSlug) => e.timestamp <= o.timestamp

\* C24: the dedup state is local to the window: an event outside
\* [start_date, end_date] never becomes a solve and never sets a watermark, so the
\* earliest in-window event of every problem id of known tier is a solve of the
\* record, also when an event of the same id outside the window lies less than the
\* minimum gap before it.
C24_WindowLocalDedup ==
    pc = "call" =>
       \A n \in 1 .. Len(all_user_submissions) :
          /\ \A solve \in Range(AllSolves(all_user_submissions[n])) :
                start_date <= solve.submission_time /\ solve.submission_time <= end_date
          /\ \A e \in Range(submissions) :
                (/\ EarliestInWindow(e, submissions)
                 /\ QuestionBank[e.titleSlug].difficulty \in Tiers)
                   => \E solve \in Range(AllSolves(all_user_submissions[n])) :
                         /\ solve.url[2] = e.titleSlug
                         /\ solve.submission_time = fromtimestamp(e.timestamp, tz)

\* C24 witness: under a positive gap the source returned an event before the window
\* and an event of the same problem in the window less than the gap later; the
\* record holds the in-window event as its only solve
C24_Witness ==
    /\ pc = "call"
    /\ Len(all_user_submissions) >= 1
    /\ min_hours_between_submissions > 0
    /\ Len(submissions) = 2
    /\ submissions[1].titleSlug = submissions[2].titleSlug
    /\ fromtimestamp(submissions[1].timestamp, tz) < start_date
    /\ WithinWindow(submissions[2])
    /\ submissions[2].timestamp - submissions[1].timestamp < GapSeconds
    /\ total_questions(all_user_submissions[1]) = 1

C26_NoRollback ==
    [][/\ IsPrefix(expenses, expenses')
       /\ pc /= "raised"
       /\ pc' = "raised" =>
             /\ expenses' = expenses
             /\ all_user_submissions' = all_user_submissions
             /\ printed' = printed
             /\ \A n \in 1 .. Len(expenses) : expenses[n].user_index < idx
             /\ \A j \in 1 .. idx - 1 :
                   TerminalStates(j) = {"Charged"} => Cardinality(ExpensesFor(j)) = 1
             /\ \A j \in idx .. Len(users) : ExpensesFor(j) = {}
    ]_vars

\* C26 witness: the run failed at the second user after an expense was submitted
\* for the first
C26_Witness ==
    /\ pc = "raised"
    /\ idx = 2
    /\ Len(users) >= 2
    /\ Cardinality(ExpensesFor(1)) = 1
    /\ ExpensesFor(2) = {}
    /\ Len(expenses) = 1

====
